---- MODULE Spec2Model ----
(***************************************************************************)
(* A model of preParse, the single-quote JSON re-parser.                   *)
(*                                                                         *)
(* A JavaScript string is modelled as a sequence of UTF-16 code units,     *)
(* each unit a one-character TLA+ string; the two halves of a surrogate    *)
(* pair are the units HI and LO.  A "character" of the scan (one element   *)
(* of fixedWidthCharacterArray) is a sequence of one or two units.         *)
(***************************************************************************)
EXTENDS Integers, Sequences, FiniteSets, TLC

\* Longest enumerated input, in characters of Alphabet.
MaxLen == 3

SQ == "'"

DQ == "\""

BS == "\\"

HI == "HI"

LO == "LO"

\* ------------------------------------------------------------------------
\* JavaScript string primitives
\* ------------------------------------------------------------------------

Min(a, b) == IF a < b THEN a ELSE b

\* String.prototype.slice(from, to) with non-negative arguments (0-based,
\* `to` exclusive, both clamped to the length).
Slice(s, from, to) == SubSeq(s, Min(from, Len(s)) + 1, Min(to, Len(s)))

\* String.prototype.slice(from)
SliceFrom(s, from) == Slice(s, from, Len(s))

\* The string iterator (for ... of): a high surrogate followed by a low
\* surrogate is one element, every other code unit is an element by itself.
RECURSIVE CodePoints(_)
CodePoints(s) ==
    IF s = <<>> THEN <<>>
    ELSE IF Len(s) >= 2 /\ s[1] = HI /\ s[2] = LO
         THEN <<SubSeq(s, 1, 2)>> \o CodePoints(SubSeq(s, 3, Len(s)))
         ELSE <<SubSeq(s, 1, 1)>> \o CodePoints(Tail(s))

\* The regular expression class \s, restricted to the units of the model.
IsSpace(c) == c \in {" ", "\t", "\n", "\r"}

\* \s* is greedy and no delimiter is a space: the position after the run.
RECURSIVE SkipSpace(_, _)
SkipSpace(s, i) ==
    IF i <= Len(s) /\ IsSpace(s[i]) THEN SkipSpace(s, i + 1) ELSE i

\* ------------------------------------------------------------------------
\* JSON.parse as a recogniser (ECMA-404 grammar over the units of the model)
\* ------------------------------------------------------------------------

Digits == {"0", "1", "2", "3", "4", "5", "6", "7", "8", "9"}

HexDigits == Digits \cup {"a", "b", "c", "d", "e", "f", "A", "B", "C", "D", "E", "F"}

SimpleEscapes == {DQ, BS, "/", "b", "f", "n", "r", "t"}

\* JSON white space
IsJSONSpace(c) == c \in {" ", "\t", "\n", "\r"}

\* Characters that may not appear raw inside a JSON string
IsControl(c) == c \in {"\t", "\n", "\r"}

Fail == -1

RECURSIVE SkipJSONSpace(_, _)
SkipJSONSpace(s, i) ==
    IF i <= Len(s) /\ IsJSONSpace(s[i]) THEN SkipJSONSpace(s, i + 1) ELSE i

\* i is the position after the opening quotation mark; the result is the
\* position after the closing one, or Fail.
RECURSIVE JSONStringBody(_, _)
JSONStringBody(s, i) ==
    IF i > Len(s) THEN Fail
    ELSE IF s[i] = DQ THEN i + 1
    ELSE IF s[i] = BS
         THEN IF i + 1 <= Len(s) /\ s[i + 1] \in SimpleEscapes
              THEN JSONStringBody(s, i + 2)
              ELSE IF /\ i + 5 <= Len(s)
                      /\ s[i + 1] = "u"
                      /\ \A k \in 2..5 : s[i + k] \in HexDigits
                   THEN JSONStringBody(s, i + 6)
                   ELSE Fail
    ELSE IF IsControl(s[i]) THEN Fail
    ELSE JSONStringBody(s, i + 1)

RECURSIVE SkipDigits(_, _)
SkipDigits(s, i) ==
    IF i <= Len(s) /\ s[i] \in Digits THEN SkipDigits(s, i + 1) ELSE i

\* -?(0|[1-9][0-9]*)(\.[0-9]+)?([eE][+-]?[0-9]+)?
JSONNumber(s, i) ==
    LET i1 == IF i <= Len(s) /\ s[i] = "-" THEN i + 1 ELSE i
        i2 == IF i1 > Len(s) \/ s[i1] \notin Digits THEN Fail
              ELSE IF s[i1] = "0" THEN i1 + 1
              ELSE SkipDigits(s, i1)
        i3 == IF i2 = Fail THEN Fail
              ELSE IF i2 <= Len(s) /\ s[i2] = "."
                   THEN IF SkipDigits(s, i2 + 1) = i2 + 1 THEN Fail
                        ELSE SkipDigits(s, i2 + 1)
                   ELSE i2
        i4 == IF i3 = Fail THEN Fail
              ELSE IF i3 <= Len(s) /\ s[i3] \in {"e", "E"}
                   THEN LET j == IF i3 + 1 <= Len(s) /\ s[i3 + 1] \in {"+", "-"}
                                 THEN i3 + 2 ELSE i3 + 1
                        IN  IF SkipDigits(s, j) = j THEN Fail ELSE SkipDigits(s, j)
                   ELSE i3
    IN  i4

JSONLiteral(s, i, word) ==
    IF SubSeq(s, i, Min(i + Len(word) - 1, Len(s))) = word
    THEN i + Len(word) ELSE Fail

RECURSIVE JSONValue(_, _), JSONElements(_, _), JSONMembers(_, _)
\* A value starting at or after position i (leading white space allowed);
\* the result is the position after the value, or Fail.
JSONValue(s, i0) ==
    LET i == SkipJSONSpace(s, i0) IN
    IF i > Len(s) THEN Fail
    ELSE IF s[i] = DQ THEN JSONStringBody(s, i + 1)
    ELSE IF s[i] = "["
         THEN LET j == SkipJSONSpace(s, i + 1) IN
              IF j <= Len(s) /\ s[j] = "]" THEN j + 1 ELSE JSONElements(s, i + 1)
    ELSE IF s[i] = "{"
         THEN LET j == SkipJSONSpace(s, i + 1) IN
              IF j <= Len(s) /\ s[j] = "}" THEN j + 1 ELSE JSONMembers(s, i + 1)
    ELSE IF s[i] = "t" THEN JSONLiteral(s, i, <<"t", "r", "u", "e">>)
    ELSE IF s[i] = "f" THEN JSONLiteral(s, i, <<"f", "a", "l", "s", "e">>)
    ELSE IF s[i] = "n" THEN JSONLiteral(s, i, <<"n", "u", "l", "l">>)
    ELSE JSONNumber(s, i)

\* value (, value)* ]
JSONElements(s, i) ==
    LET e == JSONValue(s, i)
        j == IF e = Fail THEN Fail ELSE SkipJSONSpace(s, e)
    IN  IF j = Fail \/ j > Len(s) THEN Fail
        ELSE IF s[j] = "]" THEN j + 1
        ELSE IF s[j] = "," THEN JSONElements(s, j + 1)
        ELSE Fail

\* string : value (, string : value)* }
JSONMembers(s, i0) ==
    LET i == SkipJSONSpace(s, i0)
        k == IF i <= Len(s) /\ s[i] = DQ THEN JSONStringBody(s, i + 1) ELSE Fail
        c == IF k = Fail THEN Fail ELSE SkipJSONSpace(s, k)
        e == IF c = Fail \/ c > Len(s) THEN Fail
             ELSE IF s[c] = ":" THEN JSONValue(s, c + 1) ELSE Fail
        j == IF e = Fail THEN Fail ELSE SkipJSONSpace(s, e)
    IN  IF j = Fail \/ j > Len(s) THEN Fail
        ELSE IF s[j] = "}" THEN j + 1
        ELSE IF s[j] = "," THEN JSONMembers(s, j + 1)
        ELSE Fail

\* JSON.parse(text) does not throw
IsJSON(s) ==
    LET e == JSONValue(s, 1) IN e # Fail /\ SkipJSONSpace(s, e) = Len(s) + 1

\* ------------------------------------------------------------------------
\* The two regular-expression lookaheads of the default heuristic
\* ------------------------------------------------------------------------

\* PossibleDelimiters with the field test made before the tag tests.
PossibleDelimitersFieldFirst(isJSONType, isObjectField) ==
    IF isJSONType = "field" \/ isObjectField THEN {":"}
    ELSE IF isJSONType = "array" THEN {",", "]"}
    ELSE IF isJSONType = "object-value" THEN {",", "}"}
    ELSE IF isJSONType = "value" THEN {",", "}", "]"}
    ELSE {}

\* possibleDelimiters, as the set of units its character class [...] matches;
\* the empty string gives the class [], which matches nothing.
PossibleDelimiters(isJSONType, isObjectField) ==
    IF isJSONType = "array" THEN {",", "]"}
    ELSE IF isJSONType = "object-value" THEN {",", "}"}
    ELSE IF isJSONType = "field" \/ isObjectField THEN {":"}
    ELSE IF isJSONType = "value" THEN {",", "}", "]"}
    ELSE {}

\* !!possibleDelimiters && /^\s*[possibleDelimiters]/.test(followingString)
HeuristicDelimiterFollowing(delimiters, followingString) ==
    /\ delimiters # {}
    /\ LET i == SkipSpace(followingString, 1)
       IN  i <= Len(followingString) /\ followingString[i] \in delimiters

\* The end of the greedy run [^']* that starts at position start.
RECURSIVE SkipNonQuotes(_, _)
SkipNonQuotes(s, i) ==
    IF i <= Len(s) /\ s[i] # SQ THEN SkipNonQuotes(s, i + 1) ELSE i

\* ([^']*)'\s*[delimiters] matches s from position start.  A shorter run of
\* [^']* is followed by a unit that is not an apostrophe, and a shorter run
\* of \s* by a space, which is no delimiter: only the greedy runs can match.
FindValidsMatchesAt(delimiters, s, start) ==
    LET q == SkipNonQuotes(s, start)
        d == SkipSpace(s, q + 1)
    IN  q <= Len(s) /\ d <= Len(s) /\ s[d] \in delimiters

\* RegExp.prototype.exec without the g flag: the match with the least start
\* position; the result is capturing group 1 of it, "" when exec gives null.
RegexpCapturingGroup(delimiters, s) ==
    LET starts == {i \in 1..Len(s) : FindValidsMatchesAt(delimiters, s, i)}
    IN  IF starts = {} THEN <<>>
        ELSE LET start == CHOOSE i \in starts : \A j \in starts : i <= j
             IN  SubSeq(s, start, SkipNonQuotes(s, start) - 1)

\* ------------------------------------------------------------------------
\* Guesses
\* ------------------------------------------------------------------------

JSONTypes == {"undefined", "array", "field", "object-value", "value"}

InitialGuess ==
    [string |-> <<>>, isString |-> FALSE, isEscaped |-> FALSE, isArray |-> 0,
     isObject |-> 0, isObjectField |-> FALSE, isObjectValue |-> FALSE,
     isJSONType |-> "undefined", aufoFilled |-> 0]

\* isJSONType after "}" ; isArray and isObject are the values destructured
\* before the character was handled.
TypeAfterBrace(isArray, isObject) ==
    IF isArray = 0 /\ isObject # 0 THEN "object-value"
    ELSE IF isObject = 0 /\ isArray # 0 THEN "array"
    ELSE IF isArray # 0 /\ isObject # 0 THEN "value"
    ELSE "undefined"

\* isJSONType after "]"
TypeAfterBracket(isArray, isObject) ==
    IF isObject = 0 /\ isArray # 0 THEN "array"
    ELSE IF isArray = 0 /\ isObject # 0 THEN "object-value"
    ELSE IF isArray # 0 /\ isObject # 0 THEN "value"
    ELSE "undefined"

\* AutoFillStep with the counter decremented by the two code units of a
\* surrogate pair at once.
AutoFillStepByTwo(g) == [g EXCEPT !.aufoFilled = @ - 2]

\* currentGuess.aufoFilled is nonzero: one pre-parsed character is consumed.
AutoFillStep(g) == [g EXCEPT !.aufoFilled = @ - 1]

\* A character other than the apostrophe, inside a string.
StringCharacter(g, character) ==
    IF character = <<BS>>
    THEN [g EXCEPT !.string = @ \o character, !.isEscaped = ~g.isEscaped]
    ELSE [g EXCEPT !.string = @ \o character]

\* DelimiterCharacter with a closing brace or bracket consumed instead of
\* kept.
DelimiterCharacterDropsCloser(g, character) ==
    IF character = <<"}">> \/ character = <<"]">>
    THEN [g EXCEPT !.isObjectValue = FALSE]
    ELSE [g EXCEPT !.string = @ \o character]

\* DelimiterCharacter with the comma starting a field whenever the tag is
\* "object-value", whether or not a value is being read.
DelimiterCharacterCommaAlways(g, character) ==
    LET kept == [g EXCEPT !.string = @ \o character] IN
    IF character = <<"{">>
    THEN [kept EXCEPT !.isObjectField = TRUE, !.isJSONType = "field",
                      !.isObject = @ + 1]
    ELSE IF character = <<":">>
    THEN [kept EXCEPT !.isObjectField = FALSE, !.isJSONType = "object-value",
                      !.isObjectValue = TRUE]
    ELSE IF character = <<"}">>
    THEN [kept EXCEPT !.isObjectValue = FALSE, !.isObject = @ - 1,
                      !.isJSONType = TypeAfterBrace(g.isArray, g.isObject)]
    ELSE IF character = <<"[">>
    THEN [kept EXCEPT !.isArray = @ + 1, !.isJSONType = "array"]
    ELSE IF character = <<"]">>
    THEN [kept EXCEPT !.isArray = @ - 1,
                      !.isJSONType = TypeAfterBracket(g.isArray, g.isObject)]
    ELSE IF g.isJSONType = "object-value" /\ character = <<",">>
    THEN [kept EXCEPT !.isObjectValue = FALSE, !.isObjectField = TRUE,
                      !.isJSONType = "field"]
    ELSE kept

\* A character other than the apostrophe, outside a string.
DelimiterCharacter(g, character) ==
    LET kept == [g EXCEPT !.string = @ \o character] IN
    IF character = <<"{">>
    THEN [kept EXCEPT !.isObjectField = TRUE, !.isJSONType = "field",
                      !.isObject = @ + 1]
    ELSE IF character = <<":">>
    THEN [kept EXCEPT !.isObjectField = FALSE, !.isJSONType = "object-value",
                      !.isObjectValue = TRUE]
    ELSE IF character = <<"}">>
    THEN [kept EXCEPT !.isObjectValue = FALSE, !.isObject = @ - 1,
                      !.isJSONType = TypeAfterBrace(g.isArray, g.isObject)]
    ELSE IF character = <<"[">>
    THEN [kept EXCEPT !.isArray = @ + 1, !.isJSONType = "array"]
    ELSE IF character = <<"]">>
    THEN [kept EXCEPT !.isArray = @ - 1,
                      !.isJSONType = TypeAfterBracket(g.isArray, g.isObject)]
    ELSE IF g.isObjectValue /\ g.isJSONType = "object-value" /\ character = <<",">>
    THEN [kept EXCEPT !.isObjectValue = FALSE, !.isObjectField = TRUE,
                      !.isJSONType = "field"]
    ELSE kept

\* PlainCharacter with the backslash toggling isEscaped outside strings too.
PlainCharacterEscapesAnywhere(g, character) ==
    IF character = <<BS>>
    THEN [g EXCEPT !.string = @ \o character, !.isEscaped = ~g.isEscaped]
    ELSE IF g.isString THEN StringCharacter(g, character)
    ELSE DelimiterCharacter(g, character)

\* if (character !== "'") { ... continue }
PlainCharacter(g, character) ==
    IF g.isString THEN StringCharacter(g, character)
    ELSE DelimiterCharacter(g, character)

\* BruteForcePushed with the pushed guess taking the quotation mark too.
BruteForcePushedQuote(g, character) == [g EXCEPT !.string = @ \o <<DQ>>]

\* The brute-force fork: the pushed guess keeps the apostrophe.
BruteForcePushed(g, character) == [g EXCEPT !.string = @ \o character]

\* BruteForceCurrent with the quotation mark written escaped, as two units.
BruteForceCurrentEscaped(g) == [g EXCEPT !.string = @ \o <<BS, DQ>>]

\* The brute-force fork: the current guess takes a quotation mark.
BruteForceCurrent(g) == [g EXCEPT !.string = @ \o <<DQ>>]

\* What the default heuristic does to the guess cur: the current guess
\* afterwards and the guesses pushed, in push order.

\* DefaultEscaped with the apostrophe written over the backslash before it.
DefaultEscapedOverBackslash(cur, character) ==
    [guess  |-> [cur EXCEPT !.isEscaped = FALSE,
                            !.string = SubSeq(@, 1, Len(@) - 1) \o character],
     pushed |-> <<>>]

\* isString && isEscaped
DefaultEscaped(cur, character) ==
    [guess  |-> [cur EXCEPT !.isEscaped = FALSE, !.string = @ \o character],
     pushed |-> <<>>]

\* DefaultAutoFill with the counter set to the length of the span, without
\* the apostrophe that ends it.
DefaultAutoFillShortCount(cur, character, group, hard) ==
    [guess  |-> [cur EXCEPT !.string = @ \o character \o group \o <<DQ>>,
                            !.aufoFilled = Len(group),
                            !.isString = FALSE],
     pushed |-> <<[cur EXCEPT !.isString = FALSE, !.string = @ \o <<DQ>>]>>
                \o (IF hard
                    THEN <<[cur EXCEPT !.isString = TRUE,
                                       !.string = @ \o character]>>
                    ELSE <<>>)]

\* DefaultAutoFill with the TRY_HARD sibling pushed in both readings, in the
\* string and out of it.
DefaultAutoFillThreeSiblings(cur, character, group, hard) ==
    [guess  |-> [cur EXCEPT !.string = @ \o character \o group \o <<DQ>>,
                            !.aufoFilled = Len(group) + 1,
                            !.isString = FALSE],
     pushed |-> <<[cur EXCEPT !.isString = FALSE, !.string = @ \o <<DQ>>]>>
                \o (IF hard
                    THEN <<[cur EXCEPT !.isString = TRUE,
                                       !.string = @ \o character],
                           [cur EXCEPT !.isString = FALSE,
                                       !.string = @ \o character]>>
                    ELSE <<>>)]

\* if (regexpCapturingGroup)
DefaultAutoFill(cur, character, group, hard) ==
    [guess  |-> [cur EXCEPT !.string = @ \o character \o group \o <<DQ>>,
                            !.aufoFilled = Len(group) + 1,
                            !.isString = FALSE],
     pushed |-> <<[cur EXCEPT !.isString = FALSE, !.string = @ \o <<DQ>>]>>
                \o (IF hard
                    THEN <<[cur EXCEPT !.isString = TRUE,
                                       !.string = @ \o character]>>
                    ELSE <<>>)]

\* DefaultClose with TRY_HARD ignored: no sibling is pushed.
DefaultCloseNoSibling(cur, character, hard) ==
    [guess  |-> [cur EXCEPT !.string = @ \o <<DQ>>, !.isString = FALSE],
     pushed |-> <<>>]

\* DefaultClose with the sibling pushed whether or not TRY_HARD is on.
DefaultCloseAlwaysSibling(cur, character, hard) ==
    [guess  |-> [cur EXCEPT !.string = @ \o <<DQ>>, !.isString = FALSE],
     pushed |-> <<[cur EXCEPT !.isString = FALSE,
                              !.string = @ \o character]>>]

\* else if (heuristicDelimiterFollowing)
DefaultClose(cur, character, hard) ==
    [guess  |-> [cur EXCEPT !.string = @ \o <<DQ>>, !.isString = FALSE],
     pushed |-> IF hard
                THEN <<[cur EXCEPT !.isString = FALSE,
                                   !.string = @ \o character]>>
                ELSE <<>>]

\* DefaultKeep with the sibling closing the string with a quotation mark.
DefaultKeepClosingSibling(cur, character, hard) ==
    [guess  |-> [cur EXCEPT !.string = @ \o character],
     pushed |-> IF hard
                THEN <<[cur EXCEPT !.isString = FALSE,
                                   !.string = @ \o <<DQ>>]>>
                ELSE <<>>]

\* else: neither lookahead passed
DefaultKeep(cur, character, hard) ==
    [guess  |-> [cur EXCEPT !.string = @ \o character],
     pushed |-> IF hard
                THEN <<[cur EXCEPT !.isString = FALSE,
                                   !.string = @ \o character]>>
                ELSE <<>>]

\* else: beginning of a JSON string
DefaultOpen(cur) ==
    [guess  |-> [cur EXCEPT !.string = @ \o <<DQ>>, !.isString = TRUE],
     pushed |-> <<>>]

DefaultHeuristic(cur, input, stringIndex, character, hard) ==
    IF cur.isString
    THEN IF cur.isEscaped THEN DefaultEscaped(cur, character)
         ELSE LET delimiters == PossibleDelimiters(cur.isJSONType,
                                                   cur.isObjectField)
                  following  == SliceFrom(input, stringIndex + 1)
                  group      == RegexpCapturingGroup(delimiters,
                                                     SliceFrom(input, stringIndex))
              IN  IF group # <<>>
                  THEN DefaultAutoFill(cur, character, group, hard)
                  ELSE IF HeuristicDelimiterFollowing(delimiters, following)
                  THEN DefaultClose(cur, character, hard)
                  ELSE DefaultKeep(cur, character, hard)
    ELSE DefaultOpen(cur)

\* ------------------------------------------------------------------------
\* Inputs
\* ------------------------------------------------------------------------

\* The characters the enumerated inputs are made of; the last one is a
\* scalar value outside the BMP, which takes two code units.
Alphabet ==
    {<<SQ>>, <<"[">>, <<"]">>, <<"{">>, <<"}">>, <<":">>, <<",">>, <<"a">>,
     <<BS>>, <<DQ>>, <<" ">>, <<HI, LO>>}

\* The characters of the inputs that are run with hooks.
HookAlphabet == {<<SQ>>, <<"[">>, <<"]">>, <<"a">>, <<BS>>, <<HI, LO>>}

\* The texts of exactly n characters of the alphabet.
RECURSIVE TextsOfLength(_, _)
TextsOfLength(alphabet, n) ==
    IF n = 0 THEN {<<>>}
    ELSE {t \o c : t \in TextsOfLength(alphabet, n - 1), c \in alphabet}

EnumeratedInputs == UNION {TextsOfLength(Alphabet, n) : n \in 0..MaxLen}

HookInputs == UNION {TextsOfLength(HookAlphabet, n) : n \in 0..MaxLen}

\* json1 = `['Bob O'Rielly']`
json1 ==
    <<"[", SQ, "B", "o", "b", " ", "O", SQ, "R", "i", "e", "l", "l", "y",
    SQ, "]">>

\* ['a','b'] : every apostrophe is followed by a terminator or by content
TwoStrings ==
    <<"[", SQ, "a", SQ, ",", SQ, "b", SQ, "]">>

\* ['a'b'c'] : two apostrophes inside one string
ThreeQuotes ==
    <<"[", SQ, "a", SQ, "b", SQ, "c", SQ, "]">>

\* ['''a'] : a run of apostrophes before the one that closes
QuoteRun ==
    <<"[", SQ, SQ, SQ, "a", SQ, "]">>

\* [''X'] with X a scalar value of two code units
AstralSpan ==
    <<"[", SQ, SQ, HI, LO, SQ, "]">>

\* ["a","b"]
ValidArray ==
    <<"[", DQ, "a", DQ, ",", DQ, "b", DQ, "]">>

\* {"a":["b"]}
ValidObject ==
    <<"{", DQ, "a", DQ, ":", "[", DQ, "b", DQ, "]", "}">>

\* {'a':'b'}
ObjectInput ==
    <<"{", SQ, "a", SQ, ":", SQ, "b", SQ, "}">>

\* [''] : one empty string
EmptyString ==
    <<"[", SQ, SQ, "]">>

\* ['',''] : two empty strings
TwoEmptyStrings ==
    <<"[", SQ, SQ, ",", SQ, SQ, "]">>

\* {'':''} : an empty field name and an empty value
EmptyField ==
    <<"{", SQ, SQ, ":", SQ, SQ, "}">>

\* {'':[''],'':''} : an empty field name after an array has been closed
NestedEmpty ==
    <<"{", SQ, SQ, ":", "[", SQ, SQ, "]", ",", SQ, SQ, ":", SQ, SQ, "}">>

\* ['\n'] : an escape sequence other than \' before the closing apostrophe
EscapedLetter ==
    <<"[", SQ, BS, "n", SQ, "]">>

\* {['']} : a string in an array that follows an opening brace directly, so
\* that the guess is still in field mode
ArrayInField ==
    <<"{", "[", SQ, SQ, "]", "}">>

Scenarios ==
    {json1, TwoStrings, ThreeQuotes, QuoteRun, AstralSpan, ValidArray,
     ValidObject, ObjectInput, EmptyString, TwoEmptyStrings, EmptyField,
     NestedEmpty, EscapedLetter, ArrayInField}

\* json3 = `[{'fullName':'Bob O'Rielly','height':'13',5\\"'}]` ; the template
\* literal gives one backslash before the quotation mark.
json3 ==
    <<"[", "{", SQ, "f", "u", "l", "l", "N", "a", "m", "e", SQ, ":", SQ,
      "B", "o", "b", " ", "O", SQ, "R", "i", "e", "l", "l", "y", SQ, ",",
      SQ, "h", "e", "i", "g", "h", "t", SQ, ":", SQ, "1", "3", SQ, ",",
      "5", BS, DQ, SQ, "}", "]">>

\* ANSWERS 3: preParse(json3, undefined, undefined, true)
SourceCalls ==
    {<<json3, [bruteForce |-> "absent", heuristic |-> "absent",
               TRY_HARD |-> TRUE]>>}

\* bruteForce: "absent" (undefined), "always" (() => true, as in ANSWER 6),
\* "any" (a predicate whose answer, or failure, is free at every call).
\* heuristic: "absent" or "any" (a callback whose return value, or failure,
\* is free at every call).
Configurations ==
    [bruteForce : {"absent", "always", "any"}, heuristic : {"absent", "any"},
     TRY_HARD : BOOLEAN]

HookFree ==
    {c \in Configurations : c.bruteForce = "absent" /\ c.heuristic = "absent"}

\* The enumerated inputs run without hooks, the inputs over the smaller
\* alphabet under every configuration, the scenarios under the
\* configurations the examples of the source use, and the longer example
\* as the source calls it; one scenario that adopts a span also runs with a
\* brute-force predicate whose answers are free, TRY_HARD off.
Runs ==
    (EnumeratedInputs \X HookFree)
    \cup (HookInputs \X Configurations)
    \cup (Scenarios \X {c \in Configurations :
                          c.bruteForce # "any" /\ c.heuristic = "absent"})
    \cup ({ThreeQuotes} \X {c \in Configurations :
                              /\ c.bruteForce = "any"
                              /\ c.heuristic = "absent"
                              /\ ~c.TRY_HARD})
    \cup SourceCalls

\* ------------------------------------------------------------------------
\* State
\* ------------------------------------------------------------------------

VARIABLES
    misformattedJSON,          \* the input text
    bruteForce,                \* the kind of brute-force predicate given
    heuristic,                 \* the kind of heuristic callback given
    TRY_HARD,                  \* the hard-exploration flag
    fixedWidthCharacterArray,  \* the characters of the input
    characterIndex,            \* outer loop: index into the characters
    stringIndex,               \* outer loop: index into the code units
    guessIndex,                \* inner loop: index into guesses (0-based)
    guesses,                   \* the candidate list
    successes,                 \* the valid guesses collected at the end
    pc,                        \* "scan", "validate", "returned", "threw"
    returned,                  \* what the call gave its caller
    call                       \* what the last inner-loop iteration did

vars ==
    <<misformattedJSON, bruteForce, heuristic, TRY_HARD,
      fixedWidthCharacterArray, characterIndex, stringIndex, guessIndex,
      guesses, successes, pc, returned, call>>

params == <<misformattedJSON, bruteForce, heuristic, TRY_HARD,
            fixedWidthCharacterArray>>

\* The StringPosition object handed to a hook (currentGuess apart).
NoPosition ==
    [followingString |-> <<>>, precedingString |-> <<>>, stringIndex |-> -1,
     characterIndex |-> -1]

StringPosition ==
    [followingString |-> SliceFrom(misformattedJSON, stringIndex + 1),
     precedingString |-> Slice(misformattedJSON, 0, stringIndex),
     stringIndex     |-> stringIndex,
     characterIndex  |-> characterIndex]

\* What an inner-loop iteration did: which branch it took, what each hook
\* answered ("-" when it was not called), whether the default heuristic ran,
\* the guess it worked on and the position it was at.
NoCall ==
    [branch |-> "none", bruteForce |-> "-", heuristic |-> "-",
     default |-> FALSE, guessIndex |-> -1, position |-> NoPosition]

\* The record of the iteration being taken, before its branch is known.
ThisCall == [NoCall EXCEPT !.guessIndex = guessIndex, !.position = StringPosition]

Pending == [type |-> "pending", value |-> <<>>]

Init ==
    \E run \in Runs :
        /\ misformattedJSON = run[1]
        /\ bruteForce = run[2].bruteForce
        /\ heuristic = run[2].heuristic
        /\ TRY_HARD = run[2].TRY_HARD
        /\ fixedWidthCharacterArray = CodePoints(run[1])
        /\ characterIndex = 0
        /\ stringIndex = 0
        /\ guesses = <<InitialGuess>>
        /\ guessIndex = 0
        /\ successes = <<>>
        /\ pc = IF CodePoints(run[1]) = <<>> THEN "validate" ELSE "scan"
        /\ returned = Pending
        /\ call = NoCall

\* ------------------------------------------------------------------------
\* The scan: one action is one iteration of the inner loop
\* ------------------------------------------------------------------------

character == fixedWidthCharacterArray[characterIndex + 1]

currentGuess == guesses[guessIndex + 1]

\* NextIteration with stringIndex counting characters instead of code units.
NextIterationByCharacter(after) ==
    IF guessIndex > 0
    THEN /\ guessIndex' = guessIndex - 1
         /\ UNCHANGED <<characterIndex, stringIndex, pc>>
    ELSE /\ characterIndex' = characterIndex + 1
         /\ stringIndex' = stringIndex + 1
         /\ guessIndex' = Len(after) - 1
         /\ pc' = IF characterIndex + 1 < Len(fixedWidthCharacterArray)
                  THEN "scan" ELSE "validate"

\* NextIteration with the inner loop running forwards and testing the
\* length of the list at every iteration.
NextIterationForwards(after) ==
    IF guessIndex + 1 < Len(after)
    THEN /\ guessIndex' = guessIndex + 1
         /\ UNCHANGED <<characterIndex, stringIndex, pc>>
    ELSE /\ characterIndex' = characterIndex + 1
         /\ stringIndex' = stringIndex + Len(character)
         /\ guessIndex' = 0
         /\ pc' = IF characterIndex + 1 < Len(fixedWidthCharacterArray)
                  THEN "scan" ELSE "validate"

\* The loop bookkeeping after an iteration that leaves the list as `after`:
\* guessIndex--, and at the end of the inner loop the outer loop's update
\* and test, and the inner loop's initialisation.
NextIteration(after) ==
    IF guessIndex > 0
    THEN /\ guessIndex' = guessIndex - 1
         /\ UNCHANGED <<characterIndex, stringIndex, pc>>
    ELSE /\ characterIndex' = characterIndex + 1
         /\ stringIndex' = stringIndex + Len(character)
         /\ guessIndex' = Len(after) - 1
         /\ pc' = IF characterIndex + 1 < Len(fixedWidthCharacterArray)
                  THEN "scan" ELSE "validate"

\* The iteration replaces the current guess by g and pushes `pushed`.
Iterate(g, pushed) ==
    LET after == [guesses EXCEPT ![guessIndex + 1] = g] \o pushed IN
    /\ guesses' = after
    /\ NextIteration(after)
    /\ UNCHANGED <<params, successes, returned>>

\* if (currentGuess.aufoFilled) { currentGuess.aufoFilled--; continue }
AutoFill ==
    /\ pc = "scan"
    /\ currentGuess.aufoFilled # 0
    /\ Iterate(AutoFillStep(currentGuess), <<>>)
    /\ call' = [ThisCall EXCEPT !.branch = "autofill"]

\* if (character !== "'") { ... continue }
Character ==
    /\ pc = "scan"
    /\ currentGuess.aufoFilled = 0
    /\ character # <<SQ>>
    /\ Iterate(PlainCharacter(currentGuess, character), <<>>)
    /\ call' = [ThisCall EXCEPT !.branch = "character"]

AtApostrophe ==
    /\ pc = "scan"
    /\ currentGuess.aufoFilled = 0
    /\ character = <<SQ>>

\* bruteForce?.(...) returned true
BruteForceFork ==
    /\ AtApostrophe
    /\ bruteForce # "absent"
    /\ Iterate(BruteForceCurrent(currentGuess),
               <<BruteForcePushed(currentGuess, character)>>)
    /\ call' = [ThisCall EXCEPT !.branch = "bruteForce", !.bruteForce = "true"]

\* Throw with the failure of the hook caught and taken for a refusal: the
\* apostrophe is kept and the scan goes on.
ThrowCaught(c) ==
    /\ guesses' = [guesses EXCEPT ![guessIndex + 1].string = @ \o character]
    /\ NextIteration(guesses')
    /\ call' = c
    /\ UNCHANGED <<params, successes, returned>>

\* A hook threw: nothing in preParse catches it.
Throw(c) ==
    /\ pc' = "threw"
    /\ returned' = [type |-> "throw", value |-> <<>>]
    /\ call' = c
    /\ UNCHANGED <<params, characterIndex, stringIndex, guessIndex, guesses,
                   successes>>

BruteForceThrows ==
    /\ AtApostrophe
    /\ bruteForce = "any"
    /\ Throw([ThisCall EXCEPT !.branch = "bruteForce", !.bruteForce = "throw"])

\* BruteForceDeclined with the predicate passed over: the iteration goes on
\* to the heuristic without having asked it.
BruteForceNotAsked(answer) == answer = "-"

\* The answer of bruteForce when the iteration goes on to the heuristic:
\* "-" (no predicate) or "false".
BruteForceDeclined(answer) ==
    \/ bruteForce = "absent" /\ answer = "-"
    \/ bruteForce = "any" /\ answer = "false"

\* What the modelled heuristic callback writes into the guess it is given:
\* it takes the apostrophe for a string delimiter.
HeuristicWrites(g) ==
    [g EXCEPT !.string = @ \o <<DQ>>, !.isString = ~@]

\* HeuristicAccepts with the default heuristic run after the callback, as
\* with `if` for `else if`.
HeuristicAcceptsThenDefault ==
    /\ AtApostrophe
    /\ heuristic = "any"
    /\ \E answer \in {"-", "false"} :
        /\ BruteForceDeclined(answer)
        /\ LET d == DefaultHeuristic(HeuristicWrites(currentGuess),
                                     misformattedJSON, stringIndex, character,
                                     TRY_HARD)
           IN  Iterate(d.guess, d.pushed)
        /\ call' = [ThisCall EXCEPT !.branch = "heuristic",
                                    !.bruteForce = answer,
                                    !.heuristic = "Guess"]

\* heuristic?.(...) returned a truthy value (a Guess, as its type says)
HeuristicAccepts ==
    /\ AtApostrophe
    /\ heuristic = "any"
    /\ \E answer \in {"-", "false"} :
        /\ BruteForceDeclined(answer)
        /\ Iterate(HeuristicWrites(currentGuess), <<>>)
        /\ call' = [ThisCall EXCEPT !.branch = "heuristic",
                                    !.bruteForce = answer,
                                    !.heuristic = "Guess"]

HeuristicThrows ==
    /\ AtApostrophe
    /\ heuristic = "any"
    /\ \E answer \in {"-", "false"} :
        /\ BruteForceDeclined(answer)
        /\ Throw([ThisCall EXCEPT !.branch = "heuristic", !.bruteForce = answer,
                                  !.heuristic = "throw"])

\* The answer of heuristic when the iteration goes on to the default
\* heuristic: "-" (no callback) or "undefined" (a callback that declined:
\* it wrote nothing into the guess and returned nothing).
HeuristicDeclined(answer) ==
    \/ heuristic = "absent" /\ answer = "-"
    \/ heuristic = "any" /\ answer = "undefined"

\* else if (isString) { ... } else { ... } : the default heuristic
Default ==
    /\ AtApostrophe
    /\ \E bf \in {"-", "false"}, h \in {"-", "undefined"} :
        /\ BruteForceDeclined(bf)
        /\ HeuristicDeclined(h)
        /\ LET d == DefaultHeuristic(currentGuess, misformattedJSON,
                                     stringIndex, character, TRY_HARD)
           IN  Iterate(d.guess, d.pushed)
        /\ call' = [ThisCall EXCEPT !.branch = "default", !.bruteForce = bf,
                                    !.heuristic = h, !.default = TRUE]

\* ------------------------------------------------------------------------
\* Validation and return
\* ------------------------------------------------------------------------

\* ValidStrings without the try/catch filter: every guess is collected.
ValidStringsKeepAll(gs) == [i \in 1..Len(gs) |-> gs[i].string]

\* for (const guess of guesses) try { JSON.parse(...); successes.push(...) }
ValidStrings(gs) ==
    LET parsed == SelectSeq(gs, LAMBDA guess : IsJSON(guess.string))
    IN  [i \in 1..Len(parsed) |-> parsed[i].string]

\* The return of the recursive implementation: a bare string when exactly one
\* guess is valid.
ReturnValueBareString(valid) ==
    IF Len(valid) = 1 THEN [type |-> "string", value |-> valid[1]]
    ELSE [type |-> "array", value |-> valid]

\* The return of the recursive implementation: nothing when no guess is
\* valid.
ReturnValueUndefined(valid) ==
    IF Len(valid) = 0 THEN [type |-> "undefined", value |-> <<>>]
    ELSE [type |-> "array", value |-> valid]

\* return successes
ReturnValue(valid) == [type |-> "array", value |-> valid]

Validate ==
    /\ pc = "validate"
    /\ successes' = ValidStrings(guesses)
    /\ returned' = ReturnValue(ValidStrings(guesses))
    /\ pc' = "returned"
    /\ call' = NoCall
    /\ UNCHANGED <<params, characterIndex, stringIndex, guessIndex, guesses>>

Next ==
    \/ AutoFill
    \/ Character
    \/ BruteForceFork
    \/ BruteForceThrows
    \/ HeuristicAccepts
    \/ HeuristicThrows
    \/ Default
    \/ Validate

Spec == Init /\ [][Next]_vars

\* ------------------------------------------------------------------------
\* Properties
\* ------------------------------------------------------------------------

NoHooks == bruteForce = "absent" /\ heuristic = "absent"

HasApostrophe(s) == \E i \in 1..Len(s) : s[i] = SQ

Finished == pc = "returned"

\* The indices of the guesses whose text parses as JSON.
ValidIndices == {i \in 1..Len(guesses) : IsJSON(guesses[i].string)}

\* The k-th of them, in list order.
NthValid(k) ==
    CHOOSE i \in ValidIndices : Cardinality({j \in ValidIndices : j <= i}) = k

\* C1: the returned sequence is exactly the sub-sequence of the final
\* candidate list whose texts parse as JSON, in list order: each returned
\* string is valid, is the text of a candidate, and no valid one is left out.
C1_ResultIsValidSubsequence ==
    Finished =>
        /\ returned.type = "array"
        /\ Len(returned.value) = Cardinality(ValidIndices)
        /\ \A k \in 1..Len(returned.value) :
            /\ IsJSON(returned.value[k])
            /\ returned.value[k] = guesses[NthValid(k)].string

\* A run with hooks that ends with valid and invalid guesses, the first guess
\* being invalid.
C1_Witness ==
    /\ Finished
    /\ ~NoHooks
    /\ ValidIndices # {}
    /\ 1 \notin ValidIndices
    /\ Len(guesses) > Cardinality(ValidIndices) + 1

\* C2: an input without apostrophe never forks: there is one guess in every
\* state, after the scan its text is the input, and the result is <<input>>
\* when the input is valid JSON, under every configuration.
C2_NoApostropheOneGuess ==
    ~HasApostrophe(misformattedJSON) =>
        /\ Len(guesses) = 1
        /\ pc \in {"validate", "returned"} =>
              guesses[1].string = misformattedJSON
        /\ Finished /\ IsJSON(misformattedJSON) =>
              returned.value = <<misformattedJSON>>

C2_Witness ==
    /\ Finished
    /\ ~HasApostrophe(misformattedJSON)
    /\ IsJSON(misformattedJSON)
    /\ bruteForce = "any"
    /\ heuristic = "any"
    /\ TRY_HARD
    /\ Len(misformattedJSON) >= 2

\* C3 as stated: every valid JSON text is returned unchanged, as the only
\* result, without hooks and with TRY_HARD off.
C3_IdempotentOnValidJSON ==
    Finished /\ NoHooks /\ ~TRY_HARD /\ IsJSON(misformattedJSON) =>
        returned = [type |-> "array", value |-> <<misformattedJSON>>]

\* C3 (amended): a valid JSON text that contains no apostrophe is returned
\* unchanged, as the only result, without hooks and with TRY_HARD off.
C3_IdempotentWithoutApostrophe ==
    /\ Finished
    /\ NoHooks
    /\ ~TRY_HARD
    /\ IsJSON(misformattedJSON)
    /\ ~HasApostrophe(misformattedJSON)
    => returned = [type |-> "array", value |-> <<misformattedJSON>>]

C3_Witness ==
    /\ Finished
    /\ NoHooks
    /\ ~TRY_HARD
    /\ misformattedJSON = ValidObject
    /\ returned.value = <<ValidObject>>

\* The iteration just taken resolved an apostrophe by adopting a scanned
\* span: it set the auto-fill counter of its guess.
AdoptedSpan ==
    /\ call.branch = "default"
    /\ guesses[call.guessIndex + 1].aufoFilled > 0

RECURSIVE Concat(_)
Concat(ss) == IF ss = <<>> THEN <<>> ELSE Head(ss) \o Concat(Tail(ss))

\* C4: when the default heuristic adopts a span and sets the auto-fill counter
\* to n, the appended text (apostrophe, span, quotation mark) lies over the
\* input from the apostrophe on, position by position, the apostrophe that
\* closes the span follows it in the input, and the n characters skipped next
\* are the span and that apostrophe.
C4_AutoFillReconstructsInput ==
    AdoptedSpan =>
        LET g        == guesses[call.guessIndex + 1]
            n        == g.aufoFilled
            at       == call.position.stringIndex
            ci       == call.position.characterIndex
            appended == SubSeq(g.string, Len(g.string) - n, Len(g.string))
            span     == SubSeq(appended, 2, n)
        IN  /\ appended[1] = SQ
            /\ appended[n + 1] = DQ
            /\ Slice(misformattedJSON, at, at + n) = <<SQ>> \o span
            /\ Slice(misformattedJSON, at + n, at + n + 1) = <<SQ>>
            /\ ci + 1 + n <= Len(fixedWidthCharacterArray)
            /\ Concat(SubSeq(fixedWidthCharacterArray, ci + 2, ci + 1 + n))
                  = span \o <<SQ>>

ArrayTerminatorFollows(s, p) ==
    LET d == SkipSpace(s, p + 1) IN d <= Len(s) /\ s[d] \in {",", "]"}

\* s opens an array and a single-quoted string in it, and two apostrophes of
\* that string are each followed by a terminator of the array context, as in
\* ['a','b'].
TwoClosePoints(s) ==
    /\ Len(s) >= 2
    /\ s[1] = "["
    /\ s[2] = SQ
    /\ \E p, q \in 3..Len(s) :
        /\ p < q
        /\ s[p] = SQ
        /\ s[q] = SQ
        /\ \A i \in 3..(p - 1) : s[i] \notin {SQ, BS}
        /\ ArrayTerminatorFollows(s, p)
        /\ ArrayTerminatorFollows(s, q)

\* C6: for an input with two plausible close points of one string, preParse
\* without hooks returns at least two valid guesses with TRY_HARD on, and a
\* single resolution with TRY_HARD off.
C6_AmbiguityYieldsTwo ==
    Finished /\ NoHooks /\ TwoClosePoints(misformattedJSON) =>
        /\ TRY_HARD => Len(returned.value) >= 2
        /\ ~TRY_HARD => Len(returned.value) <= 1

\* C7 as stated: once the heuristic has been invoked, whatever it returns,
\* the guess is as the heuristic left it and the list has not grown.
C7_HeuristicIsFinal ==
    [][call'.heuristic \in {"Guess", "undefined"} =>
          guesses' = [guesses EXCEPT ![guessIndex + 1] =
                         IF call'.heuristic = "Guess"
                         THEN HeuristicWrites(@) ELSE @]]_vars

\* C7 (amended): once the heuristic has been invoked and has returned a truthy
\* value, the guess is as the heuristic left it and the list has not grown.
C7_TruthyHeuristicIsFinal ==
    [][call'.heuristic = "Guess" =>
          guesses' = [guesses EXCEPT ![guessIndex + 1] = HeuristicWrites(@)]]_vars

\* The heuristic was invoked, after the predicate answered false, for a guess
\* inside a string of an array, where the default heuristic would have acted.
C7_Witness ==
    /\ call.heuristic = "Guess"
    /\ call.bruteForce = "false"
    /\ Len(guesses) >= 2
    /\ guesses[call.guessIndex + 1].isJSONType = "array"

\* The texts obtained from s by writing each apostrophe either as it is or as
\* a quotation mark.
RECURSIVE Renderings(_)
Renderings(s) ==
    IF s = <<>> THEN {<<>>}
    ELSE LET rest == Renderings(Tail(s)) IN
         IF Head(s) = SQ
         THEN {<<SQ>> \o r : r \in rest} \cup {<<DQ>> \o r : r \in rest}
         ELSE {<<Head(s)>> \o r : r \in rest}

\* The number of apostrophes among the first n characters of the input.
ApostrophesBefore(n) ==
    Cardinality({i \in 1..n : fixedWidthCharacterArray[i] = <<SQ>>})

BetweenCharacters ==
    \/ pc = "scan" /\ guessIndex = Len(guesses) - 1
    \/ pc \in {"validate", "returned"}

\* C8: with a predicate that always answers true, the list holds 2^k guesses
\* once k apostrophes have been processed, and after the scan their texts are
\* the 2^k renderings of the input, all different.
C8_BruteForceDoubles ==
    bruteForce = "always" =>
        /\ BetweenCharacters =>
              Len(guesses) = 2 ^ ApostrophesBefore(characterIndex)
        /\ pc \in {"validate", "returned"} =>
              LET texts == {guesses[i].string : i \in 1..Len(guesses)} IN
              /\ texts = Renderings(misformattedJSON)
              /\ Cardinality(texts) = 2 ^ ApostrophesBefore(characterIndex)

C8_Witness ==
    /\ bruteForce = "always"
    /\ Finished
    /\ misformattedJSON = TwoStrings
    /\ Len(guesses) = 16

\* A hook has just thrown.
HookThrew(c) == c.bruteForce = "throw" \/ c.heuristic = "throw"

\* C9: when a hook throws, the call ends there with the error: the list and
\* the loop indices stay as they were, nothing is validated or returned, and
\* no step follows.
C9_HookErrorPropagates ==
    [][/\ HookThrew(call') =>
            /\ pc' = "threw"
            /\ returned' = [type |-> "throw", value |-> <<>>]
            /\ successes' = <<>>
            /\ UNCHANGED <<guesses, characterIndex, stringIndex, guessIndex>>
       /\ pc # "threw"]_vars

\* A hook threw at a later apostrophe, after the list had grown.
C9_Witness ==
    /\ pc = "threw"
    /\ Len(guesses) >= 2
    /\ call.position.characterIndex >= 2
    /\ call.heuristic = "throw"

\* A hook was called in the iteration just taken.
HookCalled == call.bruteForce # "-" \/ call.heuristic # "-"

\* C10: the position handed to a hook is that of the apostrophe in the input:
\* precedingString, the apostrophe and followingString make up the input,
\* stringIndex is the length of precedingString in code units and
\* characterIndex its length in scalar values.
C10_PositionFromInput ==
    HookCalled =>
        LET at == call.position IN
        /\ at.precedingString \o <<SQ>> \o at.followingString = misformattedJSON
        /\ at.stringIndex = Len(at.precedingString)
        /\ at.characterIndex = Len(CodePoints(at.precedingString))

\* A hook is called after a scalar value of two code units, for a guess whose
\* text differs from the input before the apostrophe.
C10_Witness ==
    /\ HookCalled
    /\ call.position.stringIndex > call.position.characterIndex
    /\ call.position.characterIndex >= 2
    /\ \E i \in 1..Len(guesses) :
          SubSeq(guesses[i].string, 1, call.position.stringIndex)
              # call.position.precedingString

\* ["Bob O'Rielly"]
BobORielly ==
    <<"[", DQ, "B", "o", "b", " ", "O", SQ, "R", "i", "e", "l", "l", "y",
      DQ, "]">>

\* C11: for json1 = ['Bob O'Rielly'], without hooks and with TRY_HARD off,
\* the returned sequence contains ["Bob O'Rielly"].
C11_Json1ContainsName ==
    Finished /\ NoHooks /\ ~TRY_HARD /\ misformattedJSON = json1 =>
        \E k \in 1..Len(returned.value) : returned.value[k] = BobORielly

\* json1 has been scanned with the default heuristics: the apostrophe after
\* the O forked a sibling, and the guess that adopted the span is the result.
C11_Witness ==
    /\ Finished
    /\ NoHooks
    /\ ~TRY_HARD
    /\ misformattedJSON = json1
    /\ Len(guesses) = 2
    /\ returned.value = <<BobORielly>>

\* t is [{"fullName":<string>,"height":<string>}] : a one-element array that
\* holds an object whose fields fullName and height are strings.
IsNameAndHeight(t) ==
    LET name   == <<"[", "{", DQ, "f", "u", "l", "l", "N", "a", "m", "e", DQ,
                    ":", DQ>>
        height == <<",", DQ, "h", "e", "i", "g", "h", "t", DQ, ":", DQ>>
        e1     == IF Slice(t, 0, Len(name)) = name
                  THEN JSONStringBody(t, Len(name) + 1) ELSE Fail
        e2     == IF e1 # Fail /\ Slice(t, e1 - 1, e1 - 1 + Len(height)) = height
                  THEN JSONStringBody(t, e1 + Len(height)) ELSE Fail
    IN  /\ IsJSON(t)
        /\ e2 # Fail
        /\ SliceFrom(t, e2 - 1) = <<"}", "]">>

\* C12: for json3, without hooks and with TRY_HARD on, the returned sequence
\* contains a text that parses as a one-element array holding an object whose
\* fields fullName and height are both strings.
C12_Json3HasNameAndHeight ==
    Finished /\ NoHooks /\ TRY_HARD /\ misformattedJSON = json3 =>
        \E k \in 1..Len(returned.value) : IsNameAndHeight(returned.value[k])

\* json3 has been scanned with TRY_HARD on: several guesses were forked, some
\* are invalid, and a returned one has the two string fields.
C12_Witness ==
    /\ Finished
    /\ NoHooks
    /\ TRY_HARD
    /\ misformattedJSON = json3
    /\ Len(guesses) > Len(returned.value)
    /\ \E k \in 1..Len(returned.value) :
          /\ IsNameAndHeight(returned.value[k])
          /\ HasApostrophe(returned.value[k])

\* s with every apostrophe replaced by a quotation mark.
QuotesReplaced(s) == [i \in 1..Len(s) |-> IF s[i] = SQ THEN DQ ELSE s[i]]

\* The number of apostrophes of s before position i.
QuotesBefore(s, i) == Cardinality({j \in 1..(i - 1) : s[j] = SQ})

\* s is made of delimiters and empty single-quoted strings, and reads as JSON
\* once the apostrophes are quotation marks: every string of s is empty and is
\* followed by the terminator its place in the document asks for.
OnlyEmptyStrings(s) ==
    /\ HasApostrophe(s)
    /\ \A i \in 1..Len(s) :
          /\ s[i] \in {SQ, "[", "]", "{", "}", ":", ","}
          /\ s[i] = SQ /\ QuotesBefore(s, i) % 2 = 0 =>
                /\ i + 2 <= Len(s)
                /\ s[i + 1] = SQ
                /\ s[i + 2] \in {",", "]", "}", ":"}
    /\ IsJSON(QuotesReplaced(s))

\* C13: for an input whose single-quoted strings are all empty and each
\* followed by a terminator of its context, preParse without hooks and with
\* TRY_HARD off never forks (one guess throughout the scan) and returns the
\* input with every apostrophe replaced by a quotation mark.
C13_EmptyStringsNeverFork ==
    NoHooks /\ ~TRY_HARD /\ OnlyEmptyStrings(misformattedJSON) =>
        /\ Len(guesses) = 1
        /\ Finished => returned.value = <<QuotesReplaced(misformattedJSON)>>

\* The guess the iteration works on, before and after it.
GuessBefore == guesses[guessIndex + 1]

GuessAfter == guesses'[guessIndex + 1]

\* The guesses the iteration pushed, in push order.
Pushed == SubSeq(guesses', Len(guesses) + 1, Len(guesses'))

\* The iteration is one in which the predicate answered true.
PredicateAnsweredTrue == call'.bruteForce = "true"

\* C14: when the predicate returns true for a guess at an apostrophe, the
\* continuing guess appends a quotation mark and its isString flips, and the
\* pushed sibling keeps the apostrophe and the unflipped isString.
C14_BruteForceFlipsIsString ==
    [][PredicateAnsweredTrue =>
          /\ GuessAfter.string = GuessBefore.string \o <<DQ>>
          /\ GuessAfter.isString = ~GuessBefore.isString
          /\ Len(Pushed) = 1
          /\ Pushed[1].string = GuessBefore.string \o <<SQ>>
          /\ Pushed[1].isString = GuessBefore.isString]_vars

\* The iteration just taken resolved an apostrophe.
ResolvedApostrophe(c) == c.branch \in {"bruteForce", "heuristic", "default"}

\* C15: at every apostrophe, for every guess whose auto-fill counter is zero,
\* the predicate is consulted first when there is one; the heuristic is
\* invoked only if the predicate is absent or answered false, and then it is
\* invoked when there is one; the default heuristic runs only if the heuristic
\* is absent or declined, and then it runs.  When the predicate answers true
\* the heuristic is not invoked and nothing but the brute-force fork happens
\* to the list.
C15_ResolutionOrder ==
    [][/\ AtApostrophe =>
            /\ ResolvedApostrophe(call')
            /\ call'.guessIndex = guessIndex
            /\ (call'.bruteForce = "-") = (bruteForce = "absent")
       /\ ResolvedApostrophe(call') =>
            /\ call'.heuristic # "-" => call'.bruteForce \in {"-", "false"}
            /\ call'.bruteForce \in {"-", "false"} =>
                  (call'.heuristic = "-") = (heuristic = "absent")
            /\ call'.default =
                  /\ call'.bruteForce \in {"-", "false"}
                  /\ call'.heuristic \in {"-", "undefined"}
            /\ call'.bruteForce = "true" =>
                  /\ call'.heuristic = "-"
                  /\ ~call'.default
                  /\ guesses' =
                        [guesses EXCEPT ![guessIndex + 1].string = @ \o <<DQ>>]
                        \o <<[GuessBefore EXCEPT !.string = @ \o <<SQ>>]>>
            /\ call'.heuristic = "Guess" =>
                  guesses' = [guesses EXCEPT ![guessIndex + 1] =
                                 HeuristicWrites(@)]]_vars

\* With both hooks given, one apostrophe was settled by the predicate, and at
\* a later one the predicate answered false, the heuristic declined and the
\* default heuristic ran.
C15_Witness ==
    /\ bruteForce = "any"
    /\ heuristic = "any"
    /\ call.bruteForce = "false"
    /\ call.heuristic = "undefined"
    /\ call.default
    /\ Len(guesses) >= 2
    /\ call.position.characterIndex >= 1

\* The positions of `following` that hold an apostrophe which is itself
\* followed, optional white space skipped, by a terminator.
LaterClosePoints(delimiters, following) ==
    {p \in 1..Len(following) :
        /\ following[p] = SQ
        /\ LET d == SkipSpace(following, p + 1)
           IN  d <= Len(following) /\ following[d] \in delimiters}

\* The text between the apostrophe and the next close point after it.
SpanToNextClosePoint(delimiters, following) ==
    LET points == LaterClosePoints(delimiters, following)
        next   == CHOOSE p \in points : \A q \in points : p <= q
    IN  SubSeq(following, 1, next - 1)

\* The default heuristic is about to decide an unescaped apostrophe inside a
\* string, the delimiter-following test passes there, and a later apostrophe
\* followed by a terminator exists.
BothTestsPass ==
    /\ AtApostrophe
    /\ NoHooks
    /\ GuessBefore.isString
    /\ ~GuessBefore.isEscaped
    /\ LET delimiters == PossibleDelimiters(GuessBefore.isJSONType,
                                            GuessBefore.isObjectField)
           following  == SliceFrom(misformattedJSON, stringIndex + 1)
       IN  /\ HeuristicDelimiterFollowing(delimiters, following)
           /\ LaterClosePoints(delimiters, following) # {}

\* C16: in default mode, at an unescaped apostrophe inside a string where the
\* delimiter-following test passes and a later apostrophe followed by a
\* terminator exists, the engine forks: the first sibling pushed closes the
\* string here, and the current guess keeps the apostrophe, adopts the span up
\* to that later apostrophe with a closing quotation mark and sets its
\* auto-fill counter to the length of the span plus one.
C16_AmbiguousApostropheForks ==
    [][BothTestsPass =>
          LET span == SpanToNextClosePoint(
                          PossibleDelimiters(GuessBefore.isJSONType,
                                             GuessBefore.isObjectField),
                          SliceFrom(misformattedJSON, stringIndex + 1))
          IN  /\ Len(Pushed) >= 1
              /\ Pushed[1].string = GuessBefore.string \o <<DQ>>
              /\ ~Pushed[1].isString
              /\ GuessAfter.string =
                    GuessBefore.string \o <<SQ>> \o span \o <<DQ>>
              /\ GuessAfter.aufoFilled = Len(span) + 1]_vars

\* The default heuristic is about to decide an unescaped apostrophe inside a
\* string, with TRY_HARD on, and no later apostrophe is followed by a
\* terminator: at most the delimiter-following test passes.
HardWithoutLaterClosePoint ==
    /\ AtApostrophe
    /\ NoHooks
    /\ TRY_HARD
    /\ GuessBefore.isString
    /\ ~GuessBefore.isEscaped
    /\ LaterClosePoints(PossibleDelimiters(GuessBefore.isJSONType,
                                           GuessBefore.isObjectField),
                        SliceFrom(misformattedJSON, stringIndex + 1)) = {}

\* The delimiter-following test at the apostrophe about to be decided.
DelimiterFollows ==
    HeuristicDelimiterFollowing(
        PossibleDelimiters(GuessBefore.isJSONType, GuessBefore.isObjectField),
        SliceFrom(misformattedJSON, stringIndex + 1))

\* C17: with TRY_HARD on, the sibling the default heuristic pushes takes the
\* reading opposite to the current guess.  When only the delimiter-following
\* test passes, the current guess closes the string with a quotation mark and
\* the sibling has the apostrophe and isString true; when neither test passes,
\* the current guess keeps the apostrophe and stays in the string and the
\* sibling has a quotation mark and isString false.
C17_HardSiblingIsOpposite ==
    [][HardWithoutLaterClosePoint =>
          /\ Len(Pushed) = 1
          /\ DelimiterFollows =>
                /\ GuessAfter.string = GuessBefore.string \o <<DQ>>
                /\ ~GuessAfter.isString
                /\ Pushed[1].string = GuessBefore.string \o <<SQ>>
                /\ Pushed[1].isString
          /\ ~DelimiterFollows =>
                /\ GuessAfter.string = GuessBefore.string \o <<SQ>>
                /\ GuessAfter.isString
                /\ Pushed[1].string = GuessBefore.string \o <<DQ>>
                /\ ~Pushed[1].isString]_vars

\* The iteration about to be taken handles the character c outside a string.
ConsumesOutsideString(c) ==
    /\ pc = "scan"
    /\ GuessBefore.aufoFilled = 0
    /\ ~GuessBefore.isString
    /\ character = <<c>>

\* The tag that describes the nesting left at array depth a and object
\* depth o.
TagOfDepths(a, o) ==
    IF a > 0 /\ o = 0 THEN "array"
    ELSE IF o > 0 /\ a = 0 THEN "object-value"
    ELSE IF a > 0 /\ o > 0 THEN "value"
    ELSE "undefined"

\* C18: after a closing bracket or brace is consumed outside a string, the tag
\* describes the nesting that remains after the decrement: "array" if the
\* array depth is still positive and the object depth zero, "object-value" if
\* the object depth is still positive and the array depth zero, "value" if both
\* are positive, none if both are zero.
C18_TagDescribesRemainingNesting ==
    [][/\ ConsumesOutsideString("]") \/ ConsumesOutsideString("}")
       /\ GuessAfter.isArray >= 0
       /\ GuessAfter.isObject >= 0
       => GuessAfter.isJSONType =
              TagOfDepths(GuessAfter.isArray, GuessAfter.isObject)]_vars

\* The structural state of a guess: both depth counters, both mode flags and
\* the tag.
Structure(g) ==
    <<g.isArray, g.isObject, g.isObjectField, g.isObjectValue, g.isJSONType>>

\* C19: the structural state of a guess changes as the transition table says
\* and only outside strings.  Outside a string: "{" sets field mode, tag field
\* and object depth + 1; ":" clears field mode, sets value mode and tag
\* object-value; "}" clears value mode and object depth - 1; "[" sets array
\* depth + 1 and tag array; "]" sets array depth - 1; "," switches from value
\* mode to field mode with tag field only when the tag is object-value and
\* value mode is set.  Every other character, and every character consumed
\* while isString is true, leaves the five of them unchanged.  (The tag after
\* "}" and "]" is the subject of C18 and is left open here.)
C19_TransitionTable ==
    [][pc = "scan" =>
          LET g == GuessBefore
              h == GuessAfter
          IN  /\ ConsumesOutsideString("{") =>
                    /\ h.isObjectField
                    /\ h.isJSONType = "field"
                    /\ h.isObject = g.isObject + 1
                    /\ h.isArray = g.isArray
                    /\ h.isObjectValue = g.isObjectValue
              /\ ConsumesOutsideString(":") =>
                    /\ ~h.isObjectField
                    /\ h.isObjectValue
                    /\ h.isJSONType = "object-value"
                    /\ h.isObject = g.isObject
                    /\ h.isArray = g.isArray
              /\ ConsumesOutsideString("}") =>
                    /\ ~h.isObjectValue
                    /\ h.isObject = g.isObject - 1
                    /\ h.isArray = g.isArray
                    /\ h.isObjectField = g.isObjectField
              /\ ConsumesOutsideString("[") =>
                    /\ h.isArray = g.isArray + 1
                    /\ h.isJSONType = "array"
                    /\ h.isObject = g.isObject
                    /\ h.isObjectField = g.isObjectField
                    /\ h.isObjectValue = g.isObjectValue
              /\ ConsumesOutsideString("]") =>
                    /\ h.isArray = g.isArray - 1
                    /\ h.isObject = g.isObject
                    /\ h.isObjectField = g.isObjectField
                    /\ h.isObjectValue = g.isObjectValue
              /\ /\ ConsumesOutsideString(",")
                 /\ g.isJSONType = "object-value"
                 /\ g.isObjectValue
                 => /\ ~h.isObjectValue
                    /\ h.isObjectField
                    /\ h.isJSONType = "field"
                    /\ h.isObject = g.isObject
                    /\ h.isArray = g.isArray
              /\ \/ g.isString
                 \/ g.aufoFilled # 0
                 \/ character \notin {<<"{">>, <<":">>, <<"}">>, <<"[">>,
                                      <<"]">>, <<",">>}
                 \/ /\ character = <<",">>
                    /\ ~(g.isJSONType = "object-value" /\ g.isObjectValue)
                 => Structure(h) = Structure(g)]_vars

\* A comma outside a string has just been consumed without effect, as the
\* third character or later, by a guess whose tag is object-value but whose
\* value mode is off.
C19_Witness ==
    /\ call.branch = "character"
    /\ call.position.characterIndex >= 2
    /\ fixedWidthCharacterArray[call.position.characterIndex + 1] = <<",">>
    /\ LET g == guesses[call.guessIndex + 1]
       IN  /\ ~g.isString
           /\ g.isJSONType = "object-value"
           /\ ~g.isObjectValue
           /\ ~g.isObjectField

\* The iteration about to be taken handles a character for a guess that is
\* inside a string with an escape pending.
EscapePending ==
    /\ pc = "scan"
    /\ NoHooks
    /\ GuessBefore.aufoFilled = 0
    /\ GuessBefore.isString
    /\ GuessBefore.isEscaped

\* C20: inside a string an escape lasts one character: once a backslash has
\* set isEscaped, the next character, whatever it is, is appended as it is
\* and isEscaped is false afterwards, so that an apostrophe two or more
\* characters after the backslash is not taken for an escaped one.
C20_EscapeLastsOneCharacter ==
    [][EscapePending =>
          /\ GuessAfter.string = GuessBefore.string \o character
          /\ ~GuessAfter.isEscaped]_vars

\* C21: without a caller heuristic, isEscaped is true only for guesses whose
\* isString is true, in every reachable state: no string is closed and no
\* guess with isString false is pushed while isEscaped is set.
C21_EscapedOnlyInString ==
    heuristic = "absent" =>
        \A i \in 1..Len(guesses) : guesses[i].isEscaped => guesses[i].isString

\* The brute-force fork has just written a quotation mark to a guess with an
\* escape pending, and pushed a copy of it.
C21_Witness ==
    /\ heuristic = "absent"
    /\ call.branch = "bruteForce"
    /\ guesses[call.guessIndex + 1].isEscaped
    /\ guesses[call.guessIndex + 1].isString
    /\ guesses[Len(guesses)].isEscaped

\* The terminators of a guess by its tag and field mode, the first case that
\* applies being the one taken.
Terminators(g) ==
    CASE g.isJSONType = "array" -> {",", "]"}
      [] g.isJSONType = "object-value" -> {",", "}"}
      [] g.isJSONType \notin {"array", "object-value"}
            /\ (g.isJSONType = "field" \/ g.isObjectField) -> {":"}
      [] g.isJSONType = "value" /\ ~g.isObjectField -> {",", "}", "]"}
      [] OTHER -> {}

\* The text starts, after a run of white space, with a unit of the set.
StartsWith(set, text) ==
    \E k \in 1..Len(text) :
        /\ text[k] \in set
        /\ \A j \in 1..(k - 1) : IsSpace(text[j])

\* The default heuristic decides an unescaped apostrophe inside a string.
DecidesInString ==
    /\ pc = "scan"
    /\ call'.default
    /\ GuessBefore.isString
    /\ ~GuessBefore.isEscaped

\* C22: at an unescaped apostrophe inside a string both lookaheads use the
\* terminators of the guess's context, taken in the order: tag array, tag
\* object-value, tag field or field mode, tag value.  The delimiter-following
\* test passes, and the guess closes its string there, exactly when the text
\* after the apostrophe starts, white space skipped, with a terminator; and
\* a span is adopted only up to an apostrophe that is followed, white space
\* skipped, by a terminator of the same set.
C22_TerminatorsByContext ==
    [][DecidesInString =>
          LET set       == Terminators(GuessBefore)
              following == SliceFrom(misformattedJSON, stringIndex + 1)
              span      == GuessAfter.aufoFilled - 1
          IN  /\ (GuessAfter.string = GuessBefore.string \o <<DQ>>)
                    <=> StartsWith(set, following)
              /\ GuessAfter.aufoFilled > 0 =>
                    \E p \in (span + 1)..Len(following) :
                        /\ following[p] = SQ
                        /\ StartsWith(set, SubSeq(following, p + 1,
                                                  Len(following)))
                        /\ GuessAfter.string =
                              GuessBefore.string \o <<SQ>>
                              \o SubSeq(following, p - span, p - 1)
                              \o <<DQ>>]_vars

\* The default heuristic has closed the string of a guess whose tag is array
\* while field mode was set: the array's terminators were the ones used.
C22_Witness ==
    /\ misformattedJSON = ArrayInField
    /\ call.branch = "default"
    /\ guesses[call.guessIndex + 1].isJSONType = "array"
    /\ guesses[call.guessIndex + 1].isObjectField
    /\ ~guesses[call.guessIndex + 1].isString
    /\ call.position.characterIndex = 3

\* C23: while the auto-fill counter of a guess is nonzero, an iteration for
\* that guess, whatever the character, decrements the counter by one and
\* changes nothing else: no text is appended, no flag, depth or tag changes,
\* no guess is pushed and no hook is called.  Without a caller heuristic the
\* counter is never negative.
C23_AutoFillOnlyCounts ==
    [][/\ pc = "scan" /\ GuessBefore.aufoFilled # 0 =>
            /\ GuessAfter = [GuessBefore EXCEPT !.aufoFilled = @ - 1]
            /\ Len(guesses') = Len(guesses)
            /\ ~HookCalled'
            /\ ~call'.default
       /\ heuristic = "absent" =>
            \A i \in 1..Len(guesses') : guesses'[i].aufoFilled >= 0]_vars

\* An apostrophe has been consumed by the auto-fill counter of a guess while
\* a brute-force predicate was given: the predicate was not asked.
C23_Witness ==
    /\ bruteForce # "absent"
    /\ heuristic = "absent"
    /\ call.branch = "autofill"
    /\ call.position.followingString # <<>>
    /\ misformattedJSON[call.position.stringIndex + 1] = SQ
    /\ guesses[call.guessIndex + 1].aufoFilled = 0

\* C24: the list of guesses only grows, and only at apostrophes: no iteration
\* shortens it, an iteration for a character other than the apostrophe
\* leaves its length alone, the guesses already in it keep their places (a
\* guess other than the current one is the same at the same index), and with
\* no hooks and TRY_HARD off an iteration pushes at most one guess, and only
\* when it adopts a span.
C24_GuessesOnlyGrowAtApostrophes ==
    [][pc = "scan" =>
          /\ Len(guesses') >= Len(guesses)
          /\ character # <<SQ>> => Len(guesses') = Len(guesses)
          /\ \A i \in 1..Len(guesses) :
                i # guessIndex + 1 => guesses'[i] = guesses[i]
          /\ NoHooks /\ ~TRY_HARD =>
                /\ Len(Pushed) <= 1
                /\ Len(Pushed) = 1 =>
                      /\ call'.default
                      /\ GuessAfter.aufoFilled > 0]_vars

\* With no hooks and TRY_HARD off the default heuristic has adopted a span
\* at an apostrophe inside a string and pushed the first sibling; the
\* apostrophe that opened the string pushed none.
C24_Witness ==
    /\ NoHooks
    /\ ~TRY_HARD
    /\ AdoptedSpan
    /\ Len(guesses) = 2
    /\ call.position.characterIndex >= 3

\* The text s is a prefix of the text t.
IsPrefix(s, t) == Len(s) <= Len(t) /\ SubSeq(t, 1, Len(s)) = s

\* C25: without a caller heuristic the text of every guess is append-only,
\* an iteration for one guess leaves every other guess of the list as it
\* was, and a guess pushed by a fork is a copy of the current guess as it was
\* before the iteration, with one unit appended and isString set: what
\* happens to the copy later leaves the guess it was copied from alone.
C25_AppendOnlyAndFramed ==
    [][pc = "scan" /\ heuristic = "absent" =>
          /\ \A i \in 1..Len(guesses) :
                /\ IsPrefix(guesses[i].string, guesses'[i].string)
                /\ i # guessIndex + 1 => guesses'[i] = guesses[i]
          /\ \A k \in 1..Len(Pushed) :
                \E unit \in {SQ, DQ}, inString \in BOOLEAN :
                    Pushed[k] = [GuessBefore EXCEPT
                                    !.string = @ \o <<unit>>,
                                    !.isString = inString]]_vars

\* A guess pushed by a fork has just taken a character of its own, after the
\* guess it was copied from had gone on differently: the two texts part
\* after the unit the fork wrote.
C25_Witness ==
    /\ heuristic = "absent"
    /\ call.branch = "character"
    /\ call.guessIndex = 1
    /\ Len(guesses) = 2
    /\ ~IsPrefix(guesses[1].string, guesses[2].string)
    /\ ~IsPrefix(guesses[2].string, guesses[1].string)

\* C26: the guesses advance in lock-step with the input.  The iterations of
\* one position take the guesses that were in the list when the position
\* started, from the last one down to the first, each once: the index of the
\* iteration is within the list, the next iteration of the same position has
\* the index below, the position ends after index 0 (unless a hook throws
\* and ends the scan), and the next position
\* starts at the last guess of the list as it is then.  The guesses pushed
\* while a position is processed lie above the index of the iteration, so
\* they are not taken at that position and are first taken at the next.
C26_LockStep ==
    [][pc = "scan" /\ pc' # "threw" =>
          /\ guessIndex >= 0
          /\ guessIndex < Len(guesses)
          /\ IF guessIndex > 0
             THEN /\ characterIndex' = characterIndex
                  /\ guessIndex' = guessIndex - 1
                  /\ pc' = "scan"
             ELSE /\ characterIndex' = characterIndex + 1
                  /\ pc' = "scan" => guessIndex' = Len(guesses') - 1]_vars

\* The first iteration of a position is about to take the guess that was
\* pushed by the last iteration of the position before, where the only guess
\* of the list adopted a span.
C26_Witness ==
    /\ pc = "scan"
    /\ AdoptedSpan
    /\ call.guessIndex = 0
    /\ call.position.characterIndex = characterIndex - 1
    /\ Len(guesses) = 2
    /\ guessIndex = 1

\* C27: without hooks the object depth isObject of every guess is at least
\* zero in every reachable state, whatever the input.
C27_ObjectDepthNeverNegative ==
    NoHooks => \A i \in 1..Len(guesses) : guesses[i].isObject >= 0

\* ------------------------------------------------------------------------
\* The recursive implementation (json-reparser.js), without a euristic
\* ------------------------------------------------------------------------

\* /^\s*[,:\]}]/.test(followingString)
EuristicDelimiterFollowing(followingString) ==
    LET i == SkipSpace(followingString, 1)
    IN  i <= Len(followingString)
        /\ followingString[i] \in {",", ":", "]", "}"}

\* followingString.match(/[^,:\]}]*[,:\]}]/g)?.length ?? 0 : every match
\* ends at the next delimiter, so there is one match for each delimiter.
DelimitersAfter(followingString) ==
    Cardinality({i \in 1..Len(followingString) :
                    followingString[i] \in {",", ":", "]", "}"}})

\* followingString.match(/[^']*'/g)?.length ?? 0
QuotesAfter(followingString) ==
    Cardinality({i \in 1..Len(followingString) : followingString[i] = SQ})

\* The default euristics at an apostrophe: the text and isString afterwards.
ReparserDefault(current, isString, UTFChar, followingString) ==
    IF isString
    THEN IF \/ /\ DelimitersAfter(followingString) % 2 = 1
               /\ EuristicDelimiterFollowing(followingString)
            \/ /\ EuristicDelimiterFollowing(followingString)
               /\ QuotesAfter(followingString) % 2 = 0
            \/ QuotesAfter(followingString) = 0
         THEN [guess |-> current \o <<DQ>>, isString |-> FALSE]
         ELSE [guess |-> current \o UTFChar, isString |-> TRUE]
    ELSE [guess |-> current \o <<DQ>>, isString |-> TRUE]

\* ReparserForkedGuess with the quotation mark given to the recursive call
\* as well.
ReparserForkedGuessQuote(current, UTFChar) == current \o <<DQ>>

\* currentGuess: `${currentGuess}${UTFChar}` : the guess the recursive call
\* starts from.
ReparserForkedGuess(current, UTFChar) == current \o UTFChar

\* One call of the recursive preParse on the text misformatted, from the
\* code unit UTFSubstringIndex of it on: the texts pushed to the shared list
\* guesses by the call and by the calls it makes, in the order of the pushes.
\* predicate is "always" for a bruteForce that answers true and "absent" for
\* none.
RECURSIVE ReparserPushes(_, _, _, _, _)
ReparserPushes(misformatted, UTFSubstringIndex, predicate, current, isString) ==
    IF UTFSubstringIndex >= Len(misformatted) THEN <<current>>
    ELSE LET UTFChar == Head(CodePoints(Slice(misformatted, UTFSubstringIndex,
                                              UTFSubstringIndex + 2)))
             next == UTFSubstringIndex + Len(UTFChar)
             followingString == SliceFrom(misformatted, next)
         IN  IF UTFChar # <<SQ>>
             THEN ReparserPushes(misformatted, next, predicate,
                                 current \o UTFChar, isString)
             ELSE IF predicate = "always"
             THEN ReparserPushes(followingString, 0, predicate,
                                 ReparserForkedGuess(current, UTFChar),
                                 isString)
                  \o ReparserPushes(misformatted, next, predicate,
                                    current \o <<DQ>>, TRUE)
             ELSE LET d == ReparserDefault(current, isString, UTFChar,
                                           followingString)
                  IN  ReparserPushes(misformatted, next, predicate,
                                     d.guess, d.isString)

\* The root call preParse(misformattedJSON, {bruteForce}): the list guesses
\* when the scan is over.
ReparserGuesses(text, predicate) ==
    ReparserPushes(text, 0, predicate, <<>>, FALSE)

\* for (const guess of guesses) { try { JSON.parse(guess) ... } }
ReparserSuccesses(text, predicate) ==
    SelectSeq(ReparserGuesses(text, predicate), IsJSON)

\* What the root call returns: the only success as a bare string, several
\* successes as an array, or undefined.
ReparserReturnValue(text, predicate) ==
    LET found == ReparserSuccesses(text, predicate) IN
    IF Len(found) = 1 THEN [type |-> "string", value |-> found[1]]
    ELSE IF Len(found) > 1 THEN [type |-> "array", value |-> found]
    ELSE [type |-> "undefined", value |-> <<>>]

\* The members of a list, as a set.
Range(list) == {list[i] : i \in 1..Len(list)}

\* What the recursive call returned, as the set of the strings it found.
ReparserValid(text, predicate) ==
    LET r == ReparserReturnValue(text, predicate) IN
    IF r.type = "string" THEN {r.value}
    ELSE IF r.type = "array" THEN Range(r.value)
    ELSE {}

\* C28: with a brute-force predicate that answers true at every apostrophe,
\* the recursive implementation and the iterative implementation generate
\* the same set of candidate texts, for every input, and the same set of
\* valid repaired strings.
C28_ForkingIsEquivalent ==
    pc = "returned" /\ bruteForce = "always" /\ heuristic = "absent" =>
        /\ {guesses[i].string : i \in 1..Len(guesses)}
              = Range(ReparserGuesses(misformattedJSON, "always"))
        /\ Range(returned.value) = ReparserValid(misformattedJSON, "always")

\* The iterative implementation has returned for an input with two or more
\* apostrophes under a predicate that answers true, and two or more of the
\* candidate texts are valid.
C28_Witness ==
    /\ pc = "returned"
    /\ bruteForce = "always"
    /\ heuristic = "absent"
    /\ Len(guesses) >= 4
    /\ Len(returned.value) >= 2

\* The input is a valid JSON document with every string delimiter written as
\* an apostrophe: it has no quotation mark and no backslash, it is valid
\* once every apostrophe is a quotation mark, and no structural character
\* lies inside a string.
DelimitersAsApostrophes(s) ==
    /\ \A i \in 1..Len(s) : s[i] \notin {DQ, BS}
    /\ IsJSON(QuotesReplaced(s))
    /\ \A i \in 1..Len(s) :
          s[i] \in {"[", "]", "{", "}", ":", ","} => QuotesBefore(s, i) % 2 = 0

\* C29: for an input that is a valid JSON document with every string
\* delimiter written as an apostrophe, no string holding an apostrophe, a
\* quotation mark, a backslash or a structural character, preParse without
\* hooks and with TRY_HARD off returns a sequence that holds the document,
\* that is the input with every apostrophe replaced by a quotation mark.
C29_RepairsPlainDocuments ==
    Finished /\ NoHooks /\ ~TRY_HARD /\ DelimitersAsApostrophes(misformattedJSON)
        => QuotesReplaced(misformattedJSON) \in Range(returned.value)

\* The default heuristic decides an unescaped apostrophe inside a string for
\* a guess whose tag is undefined and whose field mode is not set.
DecidesWithoutContext ==
    /\ DecidesInString
    /\ GuessBefore.isJSONType = "undefined"
    /\ ~GuessBefore.isObjectField

\* The iteration keeps the apostrophe as content: the current guess takes it
\* and stays in its string, and so does the text of the sibling TRY_HARD
\* pushes.
KeepsApostrophe ==
    /\ GuessAfter = [GuessBefore EXCEPT !.string = @ \o <<SQ>>]
    /\ Len(Pushed) = (IF TRY_HARD THEN 1 ELSE 0)
    /\ \A k \in 1..Len(Pushed) : Pushed[k].string = GuessBefore.string \o <<SQ>>

\* The text is one string written between two apostrophes.
SingleQuotedString(s) == Len(s) >= 2 /\ s[1] = SQ /\ s[Len(s)] = SQ

\* The string between the two apostrophes holds no apostrophe.
NoApostropheInside(s) == \A i \in 2..(Len(s) - 1) : s[i] # SQ

OneUnitEach == Len(fixedWidthCharacterArray) = Len(misformattedJSON)

\* The number of characters guess i has handled: the guesses above the index
\* of the iteration have handled the character of the position, the others
\* have not yet; after the scan every guess has handled the whole input.
Handled(i) ==
    IF pc \in {"validate", "returned"} THEN Len(fixedWidthCharacterArray)
    ELSE IF i > guessIndex + 1 THEN characterIndex + 1
    ELSE characterIndex

\* C31: for an input whose scalar values take one code unit each, and without
\* a caller heuristic, the text of every guess is as long as the number of
\* characters the guess has handled plus its auto-fill counter, after every
\* position; when the scan is over every counter is zero and every text is as
\* long as the input.
C31_TextLengthFollowsInput ==
    OneUnitEach /\ heuristic = "absent" =>
        \A i \in 1..Len(guesses) :
            /\ Len(guesses[i].string) = Handled(i) + guesses[i].aufoFilled
            /\ pc \in {"validate", "returned"} =>
                  /\ guesses[i].aufoFilled = 0
                  /\ Len(guesses[i].string) = Len(misformattedJSON)

\* The scan of an input without surrogate pairs is over, and a guess of it
\* adopted a span on the way: its text has a quotation mark where the input
\* has neither an apostrophe nor a quotation mark.
C31_Witness ==
    /\ pc = "validate"
    /\ OneUnitEach
    /\ heuristic = "absent"
    /\ Len(guesses) >= 2
    /\ \E i \in 1..Len(guesses), j \in 1..Len(misformattedJSON) :
          guesses[i].string[j] = DQ /\ misformattedJSON[j] # SQ
                                    /\ misformattedJSON[j] # DQ

\* ------------------------------------------------------------------------
\* Termination
\* ------------------------------------------------------------------------

\* The loops and the validation are sequential code: an iteration that can
\* be taken is taken.
LiveSpec == Init /\ [][Next]_vars /\ WF_vars(Next)

\* The number of apostrophes the scan has come to, the one of the position
\* being processed included.
ApostrophesReached ==
    IF pc = "scan" \/ pc = "threw"
    THEN ApostrophesBefore(characterIndex + 1)
    ELSE ApostrophesBefore(Len(fixedWidthCharacterArray))

\* C32: preParse terminates for every input when the hooks return: it
\* returns, unless a hook throws.  The outer loop takes each scalar value of
\* the input once, in order; an iteration pushes at most two guesses; and
\* the list holds at most 3^k guesses when k apostrophes have been reached,
\* so at most 3^k at the end for an input with k apostrophes.
C32_TerminatesWithinBound ==
    /\ <>(pc = "returned" \/ pc = "threw")
    /\ [](Len(guesses) <= 3 ^ ApostrophesReached)
    /\ [][pc = "scan" =>
             /\ Len(Pushed) <= 2
             /\ characterIndex' \in {characterIndex, characterIndex + 1}
             /\ character # <<SQ>> => Len(Pushed) = 0]_vars

\* preParse has returned for an input with three apostrophes after the
\* second one made the only guess push two, and the third made one of those
\* push one more: the list holds four guesses.
C32_Witness ==
    /\ pc = "returned"
    /\ NoHooks
    /\ TRY_HARD
    /\ ApostrophesBefore(Len(fixedWidthCharacterArray)) = 3
    /\ Len(guesses) = 4

====
